---- MODULE Spec2Model ----
(***************************************************************************)
(* The daily-records screen of the tea plantation dashboard                *)
(* (daily-plucking-manager.tsx) together with the daily_plucking table it  *)
(* writes and the dashboard views that read that table.                    *)
(* The harvest chart and the recent harvests table of the tea dashboard,   *)
(* the OrganizationProvider and the invitation page (invite-accept.tsx)    *)
(* are modelled beside it, each on its own variables.                      *)
(*                                                                         *)
(* Numbers.  Every decimal of the program is kept as an integer number of  *)
(* tenths (15.5 kg is 155, a rate of 150 is 1500, an amount of 2000 is     *)
(* 20000).  The inputs of the form have step 0.1 (kg) or step 1 (rate and  *)
(* amounts), so every value the form can hold is a whole number of tenths  *)
(* and every product kg * rate is one too.  Binary floating point rounding *)
(* is not modelled.                                                        *)
(*                                                                         *)
(* A numeric text field holds either the empty string, written <<>>, or    *)
(* the decimal string of a number n, written <<n>>.  A nullable value is   *)
(* written the same way: <<>> is null and <<x>> is x.                      *)
(***************************************************************************)
EXTENDS Integers, Sequences, FiniteSets, TLC

VARIABLES
    store,           \* rows of the daily_plucking table
    nextId,          \* next primary key the table hands out
    records,         \* useState records: the displayed list
    loading,         \* useState loading
    inflight,        \* fetchRecords requests that were sent and not yet answered
    selectedDate,    \* useState selectedDate
    showForm,        \* useState showForm
    formLoading,     \* useState formLoading
    editingRecord,   \* useState editingRecord (its id, or Null)
    extraWorkItems,  \* useState extraWorkItems (the amounts, in order)
    formData,        \* useState formData
    pendingSave,     \* the insert/update handleSubmit is awaiting, or Null
    pendingDelete,   \* the id of the row whose delete handleDelete is awaiting, or Null
    sales,           \* rows of the tea_sales table
    workersTable,    \* rows of the workers table the join can see, by id
    searchTerm,      \* useState searchTerm
    user,                 \* OrganizationProvider: useState user (its id, or Null)
    organizations,        \* OrganizationProvider: useState organizations
    currentOrganization,  \* OrganizationProvider: useState currentOrganization
    savedOrgId,           \* localStorage item current_organization_id
    orgCalls,             \* the refreshOrganizations calls that are awaiting
    tableExists,     \* whether the daily_plucking table has been created
    chartData,       \* harvest and revenue chart: useState chartData
    chartLoading,    \* harvest and revenue chart: useState loading
    harvestData,     \* RecentHarvestTable: useState harvestData
    harvestLoading,  \* RecentHarvestTable: useState loading
    invitation,      \* the row of the invitations table with the token, or Null
    members,         \* rows of the organization_members table
    now,             \* the time
    inviteLoading,   \* InviteAccept: useState loading
    invite,          \* InviteAccept: useState invite
    inviteError,     \* InviteAccept: useState error
    inviteUser,      \* InviteAccept: useState user
    checking,        \* InviteAccept: checkUser is awaiting getUser
    accepting,       \* InviteAccept: useState accepting
    acceptCall,      \* the statement handleAccept is awaiting, or Null
    redirected       \* router.push('/dashboard') was called

vars == <<store, nextId, records, loading, inflight, selectedDate, showForm,
          formLoading, editingRecord, extraWorkItems, formData, pendingSave,
          pendingDelete, sales, workersTable, searchTerm,
          user, organizations, currentOrganization, savedOrgId, orgCalls,
          tableExists, chartData, chartLoading, harvestData, harvestLoading,
          invitation, members, now, inviteLoading, invite, inviteError,
          inviteUser, checking, accepting, acceptCall, redirected>>

\* the state of the invitation page and of the tables it reads and writes
inviteVars ==
    <<invitation, members, now, inviteLoading, invite, inviteError,
      inviteUser, checking, accepting, acceptCall, redirected>>

\* the state of the harvest and revenue chart and of the recent harvests
\* table, and the existence of the table they read
viewVars == <<tableExists, chartData, chartLoading, harvestData, harvestLoading>>

\* the state of the OrganizationProvider
orgVars == <<user, organizations, currentOrganization, savedOrgId, orgCalls>>

\* the state of the daily records screen and of the tables it reads
dailyVars ==
    <<store, nextId, records, loading, inflight, selectedDate, showForm,
      formLoading, editingRecord, extraWorkItems, formData, pendingSave,
      pendingDelete, sales, workersTable, searchTerm>>

----------------------------------------------------------------------------
(* Bounds of the model *)

MaxRecords == 1
MaxAggRecords == 2
MaxDashRecords == 2
MaxItems == 1
MaxCalls == 2
MaxTime == 3

(* Fixed point: one decimal digit *)
Scale == 10

\* null, and a value that is not null
Null == <<>>
Some(x) == <<x>>

\* the empty text field, and the text of a number
Empty == <<>>
Text(n) == <<n>>

\* the empty selection of the worker Select
NoWorker == ""

Today == "d1"

\* The calendar of the model: today is the first day of a month, so that
\* yesterday is a day of the previous month, and both are days of every
\* range a chart shows.
Yesterday == "d0"
Dates == {Yesterday, Today}
ThisMonth == {Today}
LastMonth == {Yesterday}
ChartDays == <<Yesterday, Today>>

----------------------------------------------------------------------------
(* JavaScript helpers *)

\* parseFloat(s) || 0: parseFloat of the empty string is NaN, which is falsy
ParseFloatOr0(s) == IF s = Empty THEN 0 ELSE s[1]

\* x || 0 for a column x that may be null
OrZero(x) == IF x = Null THEN 0 ELSE x[1]

\* Math.abs
Abs(x) == IF x < 0 THEN -x ELSE x

\* a * b of two decimals kept in tenths
Mul(a, b) == (a * b) \div Scale

\* Number.prototype.toString, as the text of a field
NumToString(n) == Text(n)

\* the is_advance column: a boolean, or null in a row written before the
\* column existed
BoolCol(b) == IF b THEN "true" ELSE "false"

\* x || false, and the test if (x), for the is_advance column
Truthy(c) == c = "true"

RECURSIVE SumSeq(_)
\* items.reduce((sum, item) => sum + item.amount, 0)
SumSeq(s) == IF s = <<>> THEN 0 ELSE Head(s) + SumSeq(Tail(s))

RECURSIVE SumFn(_)
\* reduce((sum, r) => sum + f(r), 0) over a collection indexed by a finite set
SumFn(f) ==
    IF DOMAIN f = {} THEN 0
    ELSE LET x == CHOOSE y \in DOMAIN f : TRUE
         IN f[x] + SumFn([y \in DOMAIN f \ {x} |-> f[y]])

\* array.filter((_, i) => i !== index)
RemoveAt(s, i) == [k \in 1..(Len(s) - 1) |-> IF k < i THEN s[k] ELSE s[k + 1]]

----------------------------------------------------------------------------
(* The form *)

DefaultRate == 1500

\* the initial formData, also what resetForm sets
EmptyForm ==
    [worker_id |-> NoWorker, kg_plucked |-> Empty, rate_per_kg |-> Text(DefaultRate),
     is_advance |-> FALSE, advance_amount |-> Empty]

\* MinZero of an input without a min attribute
MinZeroIgnored(v) == TRUE

\* a number input with min="0": an empty value has no range to violate
MinZero(v) == IF v = Empty THEN TRUE ELSE v[1] >= 0

\* a required control
Required(v) == v # Empty

\* value={item.amount || ''}: the text shown for an extra work amount
ItemText(amount) == IF amount = 0 THEN Empty ELSE Text(amount)

\* FormValid with the min="0" of every input left out
FormValidNoRange ==
    /\ formData.worker_id # NoWorker
    /\ IF formData.is_advance
       THEN Required(formData.advance_amount)
       ELSE Required(formData.kg_plucked) /\ Required(formData.rate_per_kg)

\* FormValid with the min="0" of the extra work amount inputs left out
FormValidFieldsOnly ==
    /\ formData.worker_id # NoWorker
    /\ IF formData.is_advance
       THEN /\ Required(formData.advance_amount)
            /\ MinZero(formData.advance_amount)
       ELSE /\ Required(formData.kg_plucked)
            /\ MinZero(formData.kg_plucked)
            /\ Required(formData.rate_per_kg)
            /\ MinZero(formData.rate_per_kg)

\* The browser's constraint validation of the controls the form renders:
\* the submit event is dispatched to handleSubmit only when it passes.
FormValid ==
    /\ formData.worker_id # NoWorker
    /\ IF formData.is_advance
       THEN /\ Required(formData.advance_amount)
            /\ MinZero(formData.advance_amount)
       ELSE /\ Required(formData.kg_plucked)
            /\ MinZero(formData.kg_plucked)
            /\ Required(formData.rate_per_kg)
            /\ MinZero(formData.rate_per_kg)
            /\ \A i \in 1..Len(extraWorkItems) :
                   MinZero(ItemText(extraWorkItems[i]))

\* const extra_work_payment = extraWorkItems.reduce(...)
ExtraWorkPayment(items) == SumSeq(items)

\* AdvanceSalary with the sign left out
AdvanceSalaryUnsigned(form) == Abs(ParseFloatOr0(form.advance_amount))

\* daily_salary of an advance
AdvanceSalary(form) == -Abs(ParseFloatOr0(form.advance_amount))

\* PluckingSalary with the extra work left out
PluckingSalaryNoExtra(form, items) ==
    Mul(ParseFloatOr0(form.kg_plucked), ParseFloatOr0(form.rate_per_kg))

\* daily_salary of a plucking record
PluckingSalary(form, items) ==
    Mul(ParseFloatOr0(form.kg_plucked), ParseFloatOr0(form.rate_per_kg))
        + ExtraWorkPayment(items)

\* AdvanceKg taking the quantity the hidden field still holds
AdvanceKgStale(form) == ParseFloatOr0(form.kg_plucked)

\* kg_plucked and rate_per_kg of the row of an advance
AdvanceKg(form) == 0
AdvanceRate(form) == 0

\* notes: the extra work items as JSON, or null
NotesOf(items) == IF Len(items) > 0 THEN Some([extra_work |-> items]) ELSE Null

\* recordData of handleSubmit
RecordData(form, items, date) ==
    LET kg == IF form.is_advance THEN AdvanceKg(form)
              ELSE ParseFloatOr0(form.kg_plucked)
        rate == IF form.is_advance THEN AdvanceRate(form)
                ELSE ParseFloatOr0(form.rate_per_kg)
        salary == IF form.is_advance THEN AdvanceSalary(form)
                  ELSE PluckingSalary(form, items)
    IN [worker_id |-> form.worker_id,
        date |-> date,
        kg_plucked |-> Some(kg),
        rate_per_kg |-> Some(rate),
        wage_earned |-> Some(salary),
        total_income |-> Some(salary),
        extra_work_payment |-> Some(ExtraWorkPayment(items)),
        is_advance |-> BoolCol(form.is_advance),
        notes |-> NotesOf(items)]

\* the live salary preview
salaryPreview ==
    IF formData.is_advance
    THEN -ParseFloatOr0(formData.advance_amount)
    ELSE Mul(ParseFloatOr0(formData.kg_plucked),
             ParseFloatOr0(formData.rate_per_kg))
         + SumSeq(extraWorkItems)

----------------------------------------------------------------------------
(* The table and the displayed list *)

\* a row of the table: the columns of recordData and the primary key
RowOf(id, data) ==
    [id |-> id, worker_id |-> data.worker_id, date |-> data.date,
     kg_plucked |-> data.kg_plucked, rate_per_kg |-> data.rate_per_kg,
     wage_earned |-> data.wage_earned, total_income |-> data.total_income,
     extra_work_payment |-> data.extra_work_payment,
     is_advance |-> data.is_advance, notes |-> data.notes]

\* IsAdvanceOf inferring the kind from the sign of the amount
IsAdvanceBySign(row) == row.wage_earned[1] < 0

\* is_advance of a displayed record
IsAdvanceOf(row) == Truthy(row.is_advance)

\* ExtraWorkItemsOf losing the items
ExtraWorkItemsDropped(row) == <<>>

\* extra_work_items of a displayed record
ExtraWorkItemsOf(row) ==
    LET payment == OrZero(row.extra_work_payment)
    IN IF row.notes # Null /\ Len(row.notes[1].extra_work) > 0
       THEN row.notes[1].extra_work
       ELSE IF payment > 0 THEN <<payment>> ELSE <<>>

\* Names and search terms are kept as sequences of characters.
\* String.prototype.toLowerCase on the letters the model uses
LowerChar(c) ==
    CASE c = "A" -> "a" [] c = "B" -> "b" [] c = "E" -> "e"
      [] c = "U" -> "u" [] OTHER -> c
toLowerCase(s) == [i \in 1..Len(s) |-> LowerChar(s[i])]

\* String.prototype.includes
includes(s, t) ==
    \E i \in 0..(Len(s) - Len(t)) : SubSeq(s, i + 1, i + Len(t)) = t

\* the rows of the workers table
AllWorkers ==
    [w \in {"A", "B"} |->
        IF w = "A"
        THEN [employee_id |-> <<"E", "1">>, first_name |-> <<"A", "n", "n">>,
              last_name |-> Null]
        ELSE [employee_id |-> <<"E", "2">>, first_name |-> <<"B", "o">>,
              last_name |-> Some(<<"L", "i">>)]]

NoSearch == <<>>

\* record.workers: the joined row of the workers table, or null
WorkerOf(row) ==
    IF row.worker_id \in DOMAIN workersTable
    THEN Some(workersTable[row.worker_id])
    ELSE Null

\* worker_name of a displayed record
WorkerName(worker) ==
    IF worker = Null THEN <<"U", "n", "k", "n", "o", "w", "n">>
    ELSE worker[1].first_name
         \o (IF worker[1].last_name # Null
             THEN <<" ">> \o worker[1].last_name[1] ELSE <<>>)

\* employee_id of a displayed record
EmployeeId(worker) ==
    IF worker = Null THEN <<"-">> ELSE worker[1].employee_id

\* ProcessRecord showing the magnitude of the amount
ProcessRecordUnsigned(row) ==
    [id |-> row.id, worker_id |-> row.worker_id, date |-> row.date,
     kg_plucked |-> row.kg_plucked[1], rate_per_kg |-> row.rate_per_kg[1],
     daily_salary |-> Abs(row.wage_earned[1]),
     extra_work_payment |-> OrZero(row.extra_work_payment),
     extra_work_items |-> ExtraWorkItemsOf(row),
     is_advance |-> IsAdvanceOf(row),
     worker_name |-> WorkerName(WorkerOf(row)),
     employee_id |-> EmployeeId(WorkerOf(row))]

\* one element of processedRecords
ProcessRecord(row) ==
    [id |-> row.id, worker_id |-> row.worker_id, date |-> row.date,
     kg_plucked |-> row.kg_plucked[1], rate_per_kg |-> row.rate_per_kg[1],
     daily_salary |-> row.wage_earned[1],
     extra_work_payment |-> OrZero(row.extra_work_payment),
     extra_work_items |-> ExtraWorkItemsOf(row),
     is_advance |-> IsAdvanceOf(row),
     worker_name |-> WorkerName(WorkerOf(row)),
     employee_id |-> EmployeeId(WorkerOf(row))]

RECURSIVE NewestFirst(_)
\* .order('created_at', { ascending: false }): keys grow with creation time
NewestFirst(rows) ==
    IF rows = {} THEN <<>>
    ELSE LET r == CHOOSE x \in rows : \A y \in rows : y.id <= x.id
         IN <<r>> \o NewestFirst(rows \ {r})

\* the answer to the query of fetchRecords
QueryByDate(d) == NewestFirst({r \in store : r.date = d})

MapSeq(s) == [i \in 1..Len(s) |-> ProcessRecord(s[i])]

\* prev.filter(r => r.id !== id)
RECURSIVE WithoutId(_, _)
WithoutId(s, id) ==
    IF s = <<>> THEN <<>>
    ELSE IF Head(s).id = id THEN WithoutId(Tail(s), id)
         ELSE <<Head(s)>> \o WithoutId(Tail(s), id)

----------------------------------------------------------------------------
(* What the views show *)

\* StatsTotalKg with a reducer that drops the running sum: the quantity of
\* the last record
StatsTotalKgLast(recs) ==
    IF Len(recs) = 0 THEN 0 ELSE recs[Len(recs)].kg_plucked

\* stats.totalKg of the daily records screen
StatsTotalKg(recs) ==
    SumFn([i \in {k \in 1..Len(recs) : ~recs[k].is_advance} |-> recs[i].kg_plucked])

\* StatsTotalPaid adding the signed amounts
StatsTotalPaidSigned(recs) ==
    SumFn([i \in 1..Len(recs) |-> recs[i].daily_salary])

\* stats.totalPaid of the daily records screen
StatsTotalPaid(recs) ==
    SumFn([i \in 1..Len(recs) |-> Abs(recs[i].daily_salary)])

\* filteredRecords: the records whose worker name or employee id contains
\* the search term, letter case ignored
filteredRecords ==
    SelectSeq(records,
              LAMBDA r : \/ includes(toLowerCase(r.worker_name),
                                     toLowerCase(searchTerm))
                         \/ includes(toLowerCase(r.employee_id),
                                     toLowerCase(searchTerm)))

\* stats computed from the filtered records
statsFiltered ==
    [totalKg |-> StatsTotalKg(filteredRecords),
     totalPaid |-> StatsTotalPaid(filteredRecords)]

\* stats of the daily records screen
stats ==
    [totalKg |-> StatsTotalKg(records), totalPaid |-> StatsTotalPaid(records)]

\* the rows a view selects for one day
RowsOn(d) == {r \in store : r.date = d}

\* todaysHarvest of the dashboard cards (SectionCards)
CardsHarvest(d) ==
    SumFn([r \in {x \in RowsOn(d) : ~Truthy(x.is_advance)} |-> OrZero(r.kg_plucked)])

\* totalKg of one day of the weekly harvest trend; Number(x.toFixed(1)) keeps
\* a value that is a whole number of tenths
TrendTotalKg(d) == SumFn([r \in RowsOn(d) |-> OrZero(r.kg_plucked)])

\* todaysHarvest of the plantation overview
OverviewHarvest(d) == SumFn([r \in RowsOn(d) |-> OrZero(r.kg_plucked)])

\* TrendWorkers counting the rows (data.length) instead of the distinct
\* workers
TrendWorkersRows(d) == Cardinality(RowsOn(d))

\* TrendWorkers never below one
TrendWorkersAtLeastOne(d) ==
    IF RowsOn(d) = {} THEN 1 ELSE Cardinality({r.worker_id : r \in RowsOn(d)})

\* workers of one day of the weekly harvest trend
TrendWorkers(d) == Cardinality({r.worker_id : r \in RowsOn(d)})

\* income of one day of the weekly harvest trend
TrendIncome(d) == SumFn([r \in RowsOn(d) |-> OrZero(r.total_income)])

----------------------------------------------------------------------------
(* The money figures of the dashboards.  A quotient a / b is kept as the   *)
(* pair of a and b: JavaScript's a / 0 is Infinity or NaN.                 *)

Quot(a, b) == [num |-> a, den |-> b]

\* the number 0 where a quotient may stand
Zero == Quot(0, 1)

\* ((current - prior) / base) * 100
PercentOf(current, prior, base) == Quot((current - prior) * 100, base)

\* the rows of daily_plucking and of tea_sales dated in a period
RowsIn(days) == {r \in store : r.date \in days}
SalesIn(days) == {x \in sales : x.date \in days}

\* SectionCards: revenue of a month
CardsRevenue(days) == SumFn([x \in SalesIn(days) |-> OrZero(x.total_income)])

\* SectionCards: expenses of a month
CardsExpenses(days) ==
    SumFn([p \in RowsIn(days) |->
              IF Truthy(p.is_advance)
              THEN Abs(OrZero(p.kg_plucked))
              ELSE Mul(OrZero(p.kg_plucked), OrZero(p.rate_per_kg))])

\* SectionCards: profit of a month
CardsProfit(days) == CardsRevenue(days) - CardsExpenses(days)

\* SectionCards: the four percentage changes

\* CardsRevenueChange without the test of last month's revenue
CardsRevenueChangeUnguarded ==
    PercentOf(CardsRevenue(ThisMonth), CardsRevenue(LastMonth),
              CardsRevenue(LastMonth))

CardsRevenueChange ==
    IF CardsRevenue(LastMonth) > 0
    THEN PercentOf(CardsRevenue(ThisMonth), CardsRevenue(LastMonth),
                   CardsRevenue(LastMonth))
    ELSE Zero

CardsExpensesChange ==
    IF CardsExpenses(LastMonth) > 0
    THEN PercentOf(CardsExpenses(ThisMonth), CardsExpenses(LastMonth),
                   CardsExpenses(LastMonth))
    ELSE Zero

CardsProfitChange ==
    IF CardsProfit(LastMonth) # 0
    THEN PercentOf(CardsProfit(ThisMonth), CardsProfit(LastMonth),
                   Abs(CardsProfit(LastMonth)))
    ELSE Zero

CardsHarvestChange ==
    IF CardsHarvest(Yesterday) > 0
    THEN PercentOf(CardsHarvest(Today), CardsHarvest(Yesterday),
                   CardsHarvest(Yesterday))
    ELSE Zero

\* ChartPoint with a profit that is never shown below zero
ChartPointClamped(d) ==
    LET revenue == SumFn([x \in SalesIn({d}) |-> OrZero(x.total_income)])
        expenses == SumFn([p \in RowsIn({d}) |->
                              Mul(OrZero(p.kg_plucked), OrZero(p.rate_per_kg))])
    IN [date |-> d, revenue |-> revenue, expenses |-> expenses,
        profit |-> IF revenue < expenses THEN 0 ELSE revenue - expenses]

\* the financial chart (ChartAreaInteractive): the point of one day
ChartPoint(d) ==
    LET revenue == SumFn([x \in SalesIn({d}) |-> OrZero(x.total_income)])
        expenses == SumFn([p \in RowsIn({d}) |->
                              Mul(OrZero(p.kg_plucked), OrZero(p.rate_per_kg))])
    IN [date |-> d, revenue |-> revenue, expenses |-> expenses,
        profit |-> revenue - expenses]

\* chartData: one point for every day of the range, oldest first
ChartData == [i \in 1..Len(ChartDays) |-> ChartPoint(ChartDays[i])]

\* the totals in the header of the financial chart
ChartTotalRevenue == SumFn([i \in DOMAIN ChartData |-> ChartData[i].revenue])
ChartTotalExpenses == SumFn([i \in DOMAIN ChartData |-> ChartData[i].expenses])
ChartTotalProfit == ChartTotalRevenue - ChartTotalExpenses

\* the plantation overview: "revenue" of a month
OverviewRevenue(days) == SumFn([r \in RowsIn(days) |-> OrZero(r.total_income)])

\* the plantation overview: the two percentage changes
OverviewHarvestChange ==
    IF OverviewHarvest(Yesterday) > 0
    THEN PercentOf(OverviewHarvest(Today), OverviewHarvest(Yesterday),
                   OverviewHarvest(Yesterday))
    ELSE Zero

OverviewRevenueChange ==
    IF OverviewRevenue(LastMonth) > 0
    THEN PercentOf(OverviewRevenue(ThisMonth), OverviewRevenue(LastMonth),
                   OverviewRevenue(LastMonth))
    ELSE Zero

\* the harvest and revenue chart: "revenue" of one day, when the query
\* returns rows
HarvestChartRevenue(d) == SumFn([r \in RowsIn({d}) |-> OrZero(r.total_income)])

----------------------------------------------------------------------------
(* The harvest and revenue chart (part_002) and the recent harvests table  *)
(* (RecentHarvestTable).  Each fetches once when it is mounted; the chart   *)
(* fetches again when its time range is changed.  Every time range covers   *)
(* the days of the model.                                                   *)

\* Math.floor(Math.random() * 150) + 50 kg and 25 + Math.random() * 20 per
\* kg: the ends of the ranges
SampleHarvests == {500, 1990}
SampleRates == {250, 450}

\* sampleData: one made-up point per day of the range
SampleData ==
    {[i \in 1..Len(ChartDays) |->
         [date |-> ChartDays[i], harvest |-> h[i],
          revenue |-> Mul(h[i], r[i])]] :
     h \in [1..Len(ChartDays) -> SampleHarvests],
     r \in [1..Len(ChartDays) -> SampleRates]}

\* formattedData: the rows grouped by date, a day without rows is 0
GroupedData ==
    [i \in 1..Len(ChartDays) |->
        [date |-> ChartDays[i],
         harvest |-> SumFn([r \in RowsIn({ChartDays[i]}) |-> OrZero(r.kg_plucked)]),
         revenue |-> HarvestChartRevenue(ChartDays[i])]]

\* totalHarvest and totalRevenue under the chart's title
ChartTotalHarvest == SumFn([i \in 1..Len(chartData) |-> chartData[i].harvest])
ChartRevenueTotal == SumFn([i \in 1..Len(chartData) |-> chartData[i].revenue])

\* processedData of the recent harvests table
RecentRows ==
    LET rows == NewestFirst(store)
    IN [i \in 1..Len(rows) |->
           [id |-> rows[i].id, date |-> rows[i].date,
            kg_plucked |-> OrZero(rows[i].kg_plucked),
            total_income |-> OrZero(rows[i].total_income)]]

ViewInit ==
    /\ chartData = <<>>
    /\ chartLoading = TRUE
    /\ harvestData = <<>>
    /\ harvestLoading = TRUE

\* fetchChartData after its await, the query returned rows
ChartRows ==
    /\ chartLoading
    /\ tableExists
    /\ store # {}
    /\ chartData' = GroupedData
    /\ chartLoading' = FALSE
    /\ UNCHANGED <<tableExists, harvestData, harvestLoading>>
    /\ UNCHANGED <<dailyVars, orgVars, inviteVars>>

\* fetchChartData after its await, the query returned an error (the table
\* does not exist, or any other error) or no rows: sample data is shown
ChartSample(sample) ==
    /\ chartLoading
    /\ tableExists => store = {}
    /\ chartData' = sample
    /\ chartLoading' = FALSE
    /\ UNCHANGED <<tableExists, harvestData, harvestLoading>>
    /\ UNCHANGED <<dailyVars, orgVars, inviteVars>>

\* the time range of the chart is changed: the effect fetches again
ChartReload ==
    /\ ~chartLoading
    /\ chartLoading' = TRUE
    /\ UNCHANGED <<tableExists, chartData, harvestData, harvestLoading>>
    /\ UNCHANGED <<dailyVars, orgVars, inviteVars>>

\* fetchRecentHarvests after its await, the query returned its rows
RecentDone ==
    /\ harvestLoading
    /\ tableExists
    /\ harvestData' = RecentRows
    /\ harvestLoading' = FALSE
    /\ UNCHANGED <<tableExists, chartData, chartLoading>>
    /\ UNCHANGED <<dailyVars, orgVars, inviteVars>>

\* fetchRecentHarvests after its await, the table does not exist:
\* setHarvestData([])
RecentAbsent ==
    /\ harvestLoading
    /\ ~tableExists
    /\ harvestData' = <<>>
    /\ harvestLoading' = FALSE
    /\ UNCHANGED <<tableExists, chartData, chartLoading>>
    /\ UNCHANGED <<dailyVars, orgVars, inviteVars>>

----------------------------------------------------------------------------
(* The invitation page (InviteAccept, first half of invite-accept.tsx).     *)
(* Time is a counter; the page reads it with new Date().  A statement       *)
(* handleAccept is awaiting is a record of the statement, what it sends     *)
(* and the answer of the backend once that has arrived.                     *)

\* the invitation of the token: sent to A@x, expiring at time 2
TheInvitation ==
    [id |-> "i1", email |-> <<"A", "@", "x">>, role |-> "manager",
     expires_at |-> 2, accepted_at |-> Null, organization_id |-> "S"]

\* the users who can be signed in on the page
PageUsers ==
    {[id |-> "u1", email |-> <<"a", "@", "x">>],
     [id |-> "u2", email |-> <<"b", "@", "x">>]}

\* a membership of u1 written before the page was opened
EarlierMember ==
    [organization_id |-> "S", user_id |-> "u1", role |-> "worker",
     accepted_at |-> 0]

\* before the page is mounted
InviteInit ==
    /\ invitation = Null
    /\ members = {}
    /\ now = 1
    /\ inviteLoading = TRUE
    /\ invite = Null
    /\ inviteError = Null
    /\ inviteUser = Null
    /\ checking = FALSE
    /\ accepting = FALSE
    /\ acceptCall = Null
    /\ redirected = FALSE

\* the emails compared without regard to case
EmailMatchesAny == TRUE

\* user.email?.toLowerCase() === invite.email.toLowerCase()
EmailMatches ==
    toLowerCase(inviteUser[1].email) = toLowerCase(invite[1].email)

\* time passes
Tick ==
    /\ now < MaxTime
    /\ now' = now + 1
    /\ UNCHANGED <<invitation, members, inviteLoading, invite, inviteError,
                   inviteUser, checking, accepting, acceptCall, redirected>>
    /\ UNCHANGED <<dailyVars, orgVars, viewVars>>

\* checkUser after its await
UserChecked(u) ==
    /\ checking
    /\ checking' = FALSE
    /\ inviteUser' = u
    /\ UNCHANGED <<invitation, members, now, inviteLoading, invite,
                   inviteError, accepting, acceptCall, redirected>>
    /\ UNCHANGED <<dailyVars, orgVars, viewVars>>

\* fetchInviteDetails after its await: the query selects the invitation of
\* the token that is not accepted
InviteFetched ==
    /\ inviteLoading
    /\ inviteLoading' = FALSE
    /\ IF invitation = Null \/ invitation[1].accepted_at # Null
       THEN /\ inviteError' = Some("This invitation is invalid or has expired.")
            /\ UNCHANGED invite
       ELSE IF invitation[1].expires_at < now
       THEN /\ inviteError' = Some("This invitation has expired.")
            /\ UNCHANGED invite
       ELSE /\ invite' = Some([id |-> invitation[1].id,
                               email |-> invitation[1].email,
                               role |-> invitation[1].role,
                               expires_at |-> invitation[1].expires_at,
                               organization_id |-> invitation[1].organization_id])
            /\ UNCHANGED inviteError
    /\ UNCHANGED <<invitation, members, now, inviteUser, checking, accepting,
                   acceptCall, redirected>>
    /\ UNCHANGED <<dailyVars, orgVars, viewVars>>

\* fetchInviteDetails after its await, the query threw
InviteFetchFailed ==
    /\ inviteLoading
    /\ inviteLoading' = FALSE
    /\ inviteError' = Some("Failed to load invitation details.")
    /\ UNCHANGED <<invitation, members, now, invite, inviteUser, checking,
                   accepting, acceptCall, redirected>>
    /\ UNCHANGED <<dailyVars, orgVars, viewVars>>

\* the Accept & Join button is rendered and not disabled
AcceptButton ==
    /\ ~redirected
    /\ ~inviteLoading
    /\ inviteError = Null
    /\ inviteUser # Null
    /\ ~accepting
    /\ invite # Null /\ EmailMatches

\* handleAccept up to its first await: the membership is sent
handleAccept ==
    /\ AcceptButton
    /\ invite # Null /\ inviteUser # Null
    /\ EmailMatches
    /\ accepting' = TRUE
    /\ acceptCall' =
           Some([stage |-> "insert", answer |-> "none",
                 row |-> [organization_id |-> invite[1].organization_id,
                          user_id |-> inviteUser[1].id,
                          role |-> invite[1].role,
                          accepted_at |-> now]])
    /\ UNCHANGED <<invitation, members, now, inviteLoading, invite,
                   inviteError, inviteUser, checking, redirected>>
    /\ UNCHANGED <<dailyVars, orgVars, viewVars>>

\* the membership the table already holds for the organization and user
Duplicate(row) ==
    \E m \in members :
        m.organization_id = row.organization_id /\ m.user_id = row.user_id

\* the backend carries out the statement handleAccept is awaiting, or
\* refuses it
AcceptAnswer(answer) ==
    /\ acceptCall # Null
    /\ acceptCall[1].answer = "none"
    /\ acceptCall' = Some([acceptCall[1] EXCEPT !.answer = answer])
    /\ IF acceptCall[1].stage = "insert"
       THEN /\ answer \in {"ok", "duplicate", "error"}
            /\ answer = "duplicate" <=> Duplicate(acceptCall[1].row)
               \/ answer = "error"
            /\ members' = IF answer = "ok"
                          THEN members \cup {acceptCall[1].row}
                          ELSE members
            /\ UNCHANGED invitation
       ELSE /\ answer \in {"ok", "error"}
            /\ invitation' =
                   IF answer = "ok" /\ invitation # Null
                   THEN Some([invitation[1] EXCEPT !.accepted_at = Some(now)])
                   ELSE invitation
            /\ UNCHANGED members
    /\ UNCHANGED <<now, inviteLoading, invite, inviteError, inviteUser,
                   checking, accepting, redirected>>
    /\ UNCHANGED <<dailyVars, orgVars, viewVars>>

\* handleAccept after an await, with the answer that has arrived
AcceptContinue ==
    /\ acceptCall # Null
    /\ acceptCall[1].answer # "none"
    /\ IF acceptCall[1].stage = "insert" /\ acceptCall[1].answer = "ok"
       THEN \* the invitation is marked as accepted
            /\ acceptCall' = Some([stage |-> "update", answer |-> "none",
                                   row |-> acceptCall[1].row])
            /\ UNCHANGED <<accepting, redirected, savedOrgId>>
       ELSE IF acceptCall[1].stage = "insert"
       THEN \* duplicate or another error: a toast
            /\ acceptCall' = Null
            /\ accepting' = FALSE
            /\ UNCHANGED <<redirected, savedOrgId>>
       ELSE \* the update has returned, its error is not looked at
            /\ acceptCall' = Null
            /\ accepting' = FALSE
            /\ savedOrgId' = Some(invite[1].organization_id)
            /\ redirected' = TRUE
    /\ UNCHANGED <<invitation, members, now, inviteLoading, invite,
                   inviteError, inviteUser, checking>>
    /\ UNCHANGED <<user, organizations, currentOrganization, orgCalls>>
    /\ UNCHANGED <<dailyVars, viewVars>>

----------------------------------------------------------------------------
(* The OrganizationProvider (second half of invite-accept.tsx).  A call of  *)
(* refreshOrganizations that is awaiting is a record of the user it was     *)
(* made for (the user of its closure), the statement it awaits and the      *)
(* answer of the backend once that has arrived.                             *)

Users == {"u1", "u2"}

\* what get_user_organizations and the organization_members query return
\* for a user who is a member of organizations
Memberships ==
    [u \in Users |->
        IF u = "u1"
        THEN <<[organization_id |-> "X", organization_name |-> "Estate X",
                organization_slug |-> "x", user_role |-> "owner"],
               [organization_id |-> "S", organization_name |-> "Estate S",
                organization_slug |-> "s", user_role |-> "admin"]>>
        ELSE <<[organization_id |-> "S", organization_name |-> "Estate S",
                organization_slug |-> "s", user_role |-> "worker"]>>]

\* the answers of the backend to the awaited statement: the function or
\* table does not exist, another error, a thrown exception, no rows, rows
OrgAnswers == {"absent", "error", "throws", "empty", "rows"}

\* defaultOrg with a fixed organization id
DefaultOrgFixedId(u) ==
    [organization_id |-> "default", organization_name |-> "My Organization",
     organization_slug |-> "default", user_role |-> "owner"]

\* defaultOrg
DefaultOrg(u) ==
    [organization_id |-> u, organization_name |-> "My Organization",
     organization_slug |-> "default", user_role |-> "owner"]

OrgInit ==
    /\ user = Null
    /\ organizations = <<>>
    /\ currentOrganization = Null
    /\ savedOrgId = Null
    /\ orgCalls = {}

\* setOrganizations([defaultOrg]); setCurrentOrganizationState(defaultOrg)
UseDefaultOrg(u) ==
    /\ organizations' = <<DefaultOrg(u)>>
    /\ currentOrganization' = Some(DefaultOrg(u))
    /\ UNCHANGED savedOrgId

\* setOrganizations(orgs) and "Restore or set current org"
UseOrgs(orgs) ==
    /\ organizations' = orgs
    /\ IF \E i \in 1..Len(orgs) : Some(orgs[i].organization_id) = savedOrgId
       THEN /\ currentOrganization' =
                   Some(orgs[CHOOSE i \in 1..Len(orgs) :
                                 /\ Some(orgs[i].organization_id) = savedOrgId
                                 /\ \A j \in 1..(i - 1) :
                                        Some(orgs[j].organization_id) # savedOrgId])
            /\ UNCHANGED savedOrgId
       ELSE /\ currentOrganization' = Some(orgs[1])
            /\ savedOrgId' = Some(orgs[1].organization_id)

\* refreshOrganizations up to its first await, for a signed-in user
SendRefresh(u) ==
    orgCalls' = orgCalls \cup {[user |-> u, stage |-> "rpc", answer |-> "none"]}

\* the auth state listener (or the initial getSession) sets the user, and the
\* effect on the user loads the organizations or clears them.  A signed-in
\* session always delivers a new user object, so the effect runs again.
AuthChange(u) ==
    /\ ~(user = Null /\ u = Null)
    /\ user' = u
    /\ IF u # Null
       THEN /\ Cardinality(orgCalls) < MaxCalls
            /\ SendRefresh(u[1])
            /\ UNCHANGED <<organizations, currentOrganization, savedOrgId>>
       ELSE /\ organizations' = <<>>
            /\ currentOrganization' = Null
            /\ UNCHANGED <<savedOrgId, orgCalls>>
    /\ UNCHANGED <<dailyVars, viewVars, inviteVars>>

\* the backend answers the statement a call is awaiting
OrgAnswer(call, answer) ==
    /\ call \in orgCalls
    /\ call.answer = "none"
    /\ orgCalls' = (orgCalls \ {call}) \cup {[call EXCEPT !.answer = answer]}
    /\ UNCHANGED <<user, organizations, currentOrganization, savedOrgId>>
    /\ UNCHANGED <<dailyVars, viewVars, inviteVars>>

\* refreshOrganizations after an await, with the answer that has arrived
OrgContinue(call) ==
    /\ call \in orgCalls
    /\ call.answer # "none"
    /\ UNCHANGED user
    /\ UNCHANGED <<dailyVars, viewVars, inviteVars>>
    /\ IF call.answer \in {"absent", "throws", "empty"}
       THEN /\ UseDefaultOrg(call.user)
            /\ orgCalls' = orgCalls \ {call}
       ELSE IF call.answer = "rows"
       THEN /\ UseOrgs(Memberships[call.user])
            /\ orgCalls' = orgCalls \ {call}
       ELSE IF call.stage = "rpc"
       THEN \* another error of the function: the fallback query is sent
            /\ orgCalls' = (orgCalls \ {call})
                              \cup {[user |-> call.user, stage |-> "members",
                                     answer |-> "none"]}
            /\ UNCHANGED <<organizations, currentOrganization, savedOrgId>>
       ELSE \* another error of the fallback query: nothing is set
            /\ orgCalls' = orgCalls \ {call}
            /\ UNCHANGED <<organizations, currentOrganization, savedOrgId>>

\* setCurrentOrganization
setCurrentOrganization(i) ==
    /\ i \in 1..Len(organizations)
    /\ currentOrganization # Some(organizations[i])
    /\ currentOrganization' = Some(organizations[i])
    /\ savedOrgId' = Some(organizations[i].organization_id)
    /\ UNCHANGED <<user, organizations, orgCalls>>
    /\ UNCHANGED <<dailyVars, viewVars, inviteVars>>

----------------------------------------------------------------------------
Init ==
    /\ store = {}
    /\ nextId = 1
    /\ records = <<>>
    /\ loading = TRUE
    /\ inflight = {[date |-> Today]}
    /\ selectedDate = Today
    /\ showForm = FALSE
    /\ formLoading = FALSE
    /\ editingRecord = Null
    /\ extraWorkItems = <<>>
    /\ formData = EmptyForm
    /\ pendingSave = Null
    /\ pendingDelete = Null
    /\ sales = {}
    /\ workersTable = AllWorkers
    /\ searchTerm = NoSearch
    /\ OrgInit
    /\ tableExists = TRUE
    /\ ViewInit
    /\ InviteInit

\* A table that holds one row written before the is_advance column existed:
\* its flag is null
LegacyRows ==
    {[id |-> 1, worker_id |-> "A", date |-> Today, kg_plucked |-> Some(kg),
      rate_per_kg |-> Some(DefaultRate), wage_earned |-> Some(w), total_income |-> Some(w),
      extra_work_payment |-> Null, is_advance |-> "null", notes |-> Null] :
        kg \in {0, 155}, w \in {-20000, 0, 23250}}

InitLegacy ==
    /\ store \in {{r} : r \in LegacyRows}
    /\ nextId = 2
    /\ records = <<>>
    /\ loading = TRUE
    /\ inflight = {[date |-> Today]}
    /\ selectedDate = Today
    /\ showForm = FALSE
    /\ formLoading = FALSE
    /\ editingRecord = Null
    /\ extraWorkItems = <<>>
    /\ formData = EmptyForm
    /\ pendingSave = Null
    /\ pendingDelete = Null
    /\ sales = {}
    /\ workersTable = AllWorkers
    /\ searchTerm = NoSearch
    /\ OrgInit
    /\ tableExists = TRUE
    /\ ViewInit
    /\ InviteInit

----------------------------------------------------------------------------
(* fetchRecords *)

\* fetchRecords(): setLoading(true) and the query for the date is sent
SendFetch(d) ==
    /\ loading' = TRUE
    /\ inflight' = inflight \cup {[date |-> d]}

\* the query is answered with the rows of its date: setRecords, setLoading(false)
FetchDone(req) ==
    /\ req \in inflight
    /\ tableExists
    /\ inflight' = inflight \ {req}
    /\ records' = MapSeq(QueryByDate(req.date))
    /\ loading' = FALSE
    /\ UNCHANGED <<store, nextId, selectedDate, pendingDelete, sales, workersTable, searchTerm, showForm, formLoading,
                   editingRecord, extraWorkItems, formData, pendingSave, orgVars, viewVars, inviteVars>>

\* FetchAbsent returning before the busy flag is released
FetchAbsentNoFinally(req) ==
    /\ req \in inflight
    /\ ~tableExists
    /\ inflight' = inflight \ {req}
    /\ records' = <<>>
    /\ UNCHANGED <<store, nextId, loading, selectedDate, pendingDelete, sales,
                   workersTable, searchTerm, showForm, formLoading,
                   editingRecord, extraWorkItems, formData, pendingSave,
                   orgVars, viewVars, inviteVars>>

\* the query is answered with: relation "daily_plucking" does not exist:
\* setRecords([]), no toast, setLoading(false)
FetchAbsent(req) ==
    /\ req \in inflight
    /\ ~tableExists
    /\ inflight' = inflight \ {req}
    /\ records' = <<>>
    /\ loading' = FALSE
    /\ UNCHANGED <<store, nextId, selectedDate, pendingDelete, sales,
                   workersTable, searchTerm, showForm, formLoading,
                   editingRecord, extraWorkItems, formData, pendingSave,
                   orgVars, viewVars, inviteVars>>

\* the query fails: toast, setLoading(false); the displayed list stays
FetchFailed(req) ==
    /\ req \in inflight
    /\ inflight' = inflight \ {req}
    /\ loading' = FALSE
    /\ UNCHANGED <<store, nextId, records, selectedDate, pendingDelete, sales, workersTable, searchTerm, showForm, formLoading,
                   editingRecord, extraWorkItems, formData, pendingSave, orgVars, viewVars, inviteVars>>

----------------------------------------------------------------------------
(* The controls of the form.  The form is a modal over the list: its      *)
(* controls exist while showForm holds, the list's controls while it does  *)
(* not.  The plucking inputs are rendered when is_advance is false, the    *)
(* advance input when it is true.                                          *)

\* the Add Record button
OpenForm ==
    /\ ~showForm
    /\ showForm' = TRUE
    /\ UNCHANGED <<store, nextId, records, loading, inflight, selectedDate, pendingDelete, sales, workersTable, searchTerm,
                   formLoading, editingRecord, extraWorkItems, formData,
                   pendingSave, orgVars, viewVars, inviteVars>>

FormOnly ==
    UNCHANGED <<store, nextId, records, loading, inflight, selectedDate, pendingDelete, sales, workersTable, searchTerm,
                showForm, formLoading, editingRecord, pendingSave, orgVars, viewVars, inviteVars>>

\* the Plucking / Advance toggle
SetType(b) ==
    /\ showForm
    /\ formData.is_advance # b
    /\ formData' = [formData EXCEPT !.is_advance = b]
    /\ UNCHANGED extraWorkItems
    /\ FormOnly

\* the worker Select
SetWorker(w) ==
    /\ showForm
    /\ formData.worker_id # w
    /\ formData' = [formData EXCEPT !.worker_id = w]
    /\ UNCHANGED extraWorkItems
    /\ FormOnly

\* the Kg Plucked input
SetKg(v) ==
    /\ showForm
    /\ ~formData.is_advance
    /\ formData.kg_plucked # v
    /\ formData' = [formData EXCEPT !.kg_plucked = v]
    /\ UNCHANGED extraWorkItems
    /\ FormOnly

\* the Rate/kg input
SetRate(v) ==
    /\ showForm
    /\ ~formData.is_advance
    /\ formData.rate_per_kg # v
    /\ formData' = [formData EXCEPT !.rate_per_kg = v]
    /\ UNCHANGED extraWorkItems
    /\ FormOnly

\* the Advance Amount input
SetAdvance(v) ==
    /\ showForm
    /\ formData.is_advance
    /\ formData.advance_amount # v
    /\ formData' = [formData EXCEPT !.advance_amount = v]
    /\ UNCHANGED extraWorkItems
    /\ FormOnly

\* the Add Work button
AddWork ==
    /\ showForm
    /\ ~formData.is_advance
    /\ Len(extraWorkItems) < MaxItems
    /\ extraWorkItems' = Append(extraWorkItems, 0)
    /\ UNCHANGED formData
    /\ FormOnly

\* the amount input of extra work item i
SetWorkAmount(i, v) ==
    /\ showForm
    /\ ~formData.is_advance
    /\ i \in 1..Len(extraWorkItems)
    /\ extraWorkItems[i] # ParseFloatOr0(v)
    /\ extraWorkItems' = [extraWorkItems EXCEPT ![i] = ParseFloatOr0(v)]
    /\ UNCHANGED formData
    /\ FormOnly

\* the remove button of extra work item i
RemoveWork(i) ==
    /\ showForm
    /\ ~formData.is_advance
    /\ i \in 1..Len(extraWorkItems)
    /\ extraWorkItems' = RemoveAt(extraWorkItems, i)
    /\ UNCHANGED formData
    /\ FormOnly

\* resetForm
ResetForm ==
    /\ formData' = EmptyForm
    /\ extraWorkItems' = <<>>
    /\ editingRecord' = Null

\* the X and Cancel buttons
handleCloseForm ==
    /\ showForm
    /\ showForm' = FALSE
    /\ ResetForm
    /\ UNCHANGED <<store, nextId, records, loading, inflight, selectedDate, pendingDelete, sales, workersTable, searchTerm,
                   formLoading, pendingSave, orgVars, viewVars, inviteVars>>

----------------------------------------------------------------------------
(* The controls of the list *)

\* the date input: setSelectedDate, and the effect fetches the records of
\* the date
SetDate(d) ==
    /\ ~showForm
    /\ selectedDate # d
    /\ selectedDate' = d
    /\ SendFetch(d)
    /\ UNCHANGED <<store, nextId, records, showForm, formLoading, editingRecord,
                   extraWorkItems, formData, pendingSave, pendingDelete, sales, workersTable, searchTerm, orgVars, viewVars, inviteVars>>

\* the search input: setSearchTerm
SetSearch(t) ==
    /\ ~showForm
    /\ searchTerm # t
    /\ searchTerm' = t
    /\ UNCHANGED <<store, nextId, records, loading, inflight, selectedDate,
                   showForm, formLoading, editingRecord, extraWorkItems,
                   formData, pendingSave, pendingDelete, sales, workersTable, orgVars, viewVars, inviteVars>>

\* outside the program a row of the workers table is deleted or hidden from
\* the user: the join of fetchRecords returns null for its entries
WorkerHidden(w) ==
    /\ w \in DOMAIN workersTable
    /\ workersTable' = [x \in DOMAIN workersTable \ {w} |-> workersTable[x]]
    /\ UNCHANGED <<store, nextId, records, loading, inflight, selectedDate,
                   showForm, formLoading, editingRecord, extraWorkItems,
                   formData, pendingSave, pendingDelete, sales, searchTerm, orgVars, viewVars, inviteVars>>

\* the form fields handleEdit fills in from a displayed record
EditFormOf(record) ==
    [worker_id |-> record.worker_id,
     kg_plucked |-> IF record.is_advance THEN Text(0)
                    ELSE NumToString(record.kg_plucked),
     rate_per_kg |-> NumToString(record.rate_per_kg),
     is_advance |-> record.is_advance,
     advance_amount |-> IF record.is_advance
                        THEN NumToString(Abs(record.daily_salary))
                        ELSE Empty]

handleEdit(i) ==
    /\ ~showForm
    /\ i \in 1..Len(records)
    /\ editingRecord' = Some(records[i].id)
    /\ extraWorkItems' = records[i].extra_work_items
    /\ formData' = EditFormOf(records[i])
    /\ showForm' = TRUE
    /\ UNCHANGED <<store, nextId, records, loading, inflight, selectedDate, pendingDelete, sales, workersTable, searchTerm,
                   formLoading, pendingSave, orgVars, viewVars, inviteVars>>

\* handleDelete, the confirm dialog answered with Cancel
DeleteCancelled(i) ==
    /\ ~showForm
    /\ i \in 1..Len(records)
    /\ UNCHANGED vars

\* handleDelete up to its await: the confirm dialog is answered with OK and
\* the delete of the row is sent
handleDelete(i) ==
    /\ ~showForm
    /\ i \in 1..Len(records)
    /\ pendingDelete = Null
    /\ pendingDelete' = Some(records[i].id)
    /\ UNCHANGED <<store, nextId, records, loading, inflight, selectedDate,
                   showForm, formLoading, editingRecord, extraWorkItems,
                   formData, pendingSave, sales, workersTable, searchTerm, orgVars, viewVars, inviteVars>>

\* DeleteOk leaving the displayed list as it was
DeleteOkNoFilter ==
    /\ pendingDelete # Null
    /\ tableExists
    /\ store' = {r \in store : r.id # pendingDelete[1]}
    /\ pendingDelete' = Null
    /\ UNCHANGED <<nextId, records, loading, inflight, selectedDate, showForm,
                   formLoading, editingRecord, extraWorkItems, formData,
                   pendingSave, sales, workersTable, searchTerm, orgVars, viewVars, inviteVars>>

\* handleDelete after its await, the delete succeeded: the row is gone from
\* the table and is filtered out of the displayed list
DeleteOk ==
    /\ pendingDelete # Null
    /\ tableExists
    /\ store' = {r \in store : r.id # pendingDelete[1]}
    /\ records' = WithoutId(records, pendingDelete[1])
    /\ pendingDelete' = Null
    /\ UNCHANGED <<nextId, loading, inflight, selectedDate, showForm,
                   formLoading, editingRecord, extraWorkItems, formData,
                   pendingSave, sales, workersTable, searchTerm, orgVars, viewVars, inviteVars>>

\* handleDelete after its await, the delete failed: a toast, nothing else
DeleteFailed ==
    /\ pendingDelete # Null
    /\ pendingDelete' = Null
    /\ UNCHANGED <<store, nextId, records, loading, inflight, selectedDate,
                   showForm, formLoading, editingRecord, extraWorkItems,
                   formData, pendingSave, sales, workersTable, searchTerm, orgVars, viewVars, inviteVars>>

----------------------------------------------------------------------------
(* handleSubmit *)

\* the submit button is pressed and the browser refuses the form: it shows
\* its validation message and dispatches no submit event
SubmitBlocked ==
    /\ showForm
    /\ ~formLoading
    /\ ~FormValid
    /\ UNCHANGED vars

\* handleSubmit up to its await: setFormLoading(true), recordData is built
\* and the update (when editing) or insert is sent
handleSubmit ==
    /\ showForm
    /\ ~formLoading
    /\ FormValid
    /\ formLoading' = TRUE
    /\ pendingSave' = Some([data |-> RecordData(formData, extraWorkItems, selectedDate),
                            target |-> editingRecord])
    /\ UNCHANGED <<store, nextId, records, loading, inflight, selectedDate, pendingDelete, sales, workersTable, searchTerm,
                   showForm, editingRecord, extraWorkItems, formData, orgVars, viewVars, inviteVars>>

\* the table after the awaited statement
Saved(save) ==
    IF save.target = Null
    THEN store \cup {RowOf(nextId, save.data)}
    ELSE {IF r.id = save.target[1] THEN RowOf(r.id, save.data) ELSE r : r \in store}

\* handleSubmit after its await, the statement succeeded: the form is closed
\* and reset, the list is fetched again
SaveOk ==
    /\ pendingSave # Null
    /\ tableExists
    /\ store' = Saved(pendingSave[1])
    /\ nextId' = IF pendingSave[1].target = Null THEN nextId + 1 ELSE nextId
    /\ showForm' = FALSE
    /\ ResetForm
    /\ SendFetch(pendingSave[1].data.date)
    /\ formLoading' = FALSE
    /\ pendingSave' = Null
    /\ UNCHANGED <<records, selectedDate, pendingDelete, sales, workersTable, searchTerm, orgVars, viewVars, inviteVars>>

\* SaveFailed closing the form as a successful save does
SaveFailedClosing ==
    /\ pendingSave # Null
    /\ formLoading' = FALSE
    /\ pendingSave' = Null
    /\ showForm' = FALSE
    /\ UNCHANGED <<store, nextId, records, loading, inflight, selectedDate, pendingDelete, sales, workersTable, searchTerm,
                   editingRecord, extraWorkItems, formData, orgVars, viewVars, inviteVars>>

\* handleSubmit after its await, the statement failed
SaveFailed ==
    /\ pendingSave # Null
    /\ formLoading' = FALSE
    /\ pendingSave' = Null
    /\ UNCHANGED <<store, nextId, records, loading, inflight, selectedDate, pendingDelete, sales, workersTable, searchTerm,
                   showForm, editingRecord, extraWorkItems, formData, orgVars, viewVars, inviteVars>>

----------------------------------------------------------------------------------------------------------------------------------------
(* The specification *)

\* what the user can do with the fields of the form, with inputs from the
\* given sets
FormUser(W, K, R, A) ==
    \/ OpenForm
    \/ \E b \in BOOLEAN : SetType(b)
    \/ \E w \in W : SetWorker(w)
    \/ \E v \in K : SetKg(v)
    \/ \E v \in R : SetRate(v)
    \/ \E v \in A : SetAdvance(v)
    \/ handleCloseForm
    \/ SubmitBlocked

\* what the user can do with the extra work items of the form
WorkUser(X) ==
    \/ AddWork
    \/ \E i \in 1..MaxItems, v \in X : SetWorkAmount(i, v)
    \/ \E i \in 1..MaxItems : RemoveWork(i)

\* what the user can do with the list and the Submit button, with at most N
\* rows ever inserted
ListUser(N) ==
    \/ \E i \in 1..N : handleEdit(i)
    \/ \E i \in 1..N : DeleteCancelled(i)
    \/ \E i \in 1..N : handleDelete(i)
    \/ (editingRecord = Null => nextId <= N) /\ handleSubmit

\* what the table answers
Answers ==
    \/ \E req \in inflight : FetchDone(req)
    \/ SaveOk
    \/ SaveFailed
    \/ DeleteOk
    \/ DeleteFailed

\* no statement is awaited
Quiet == pendingSave = Null /\ pendingDelete = Null /\ inflight = {}

Workers == {"A"}
KgInputs == {Text(-10), Text(155)}
RateInputs == {Text(-10), Text(1500)}
AdvanceInputs == {Text(-20000), Text(20000)}

\* A user who waits for the table's answer before the next click or key.
\* The rows the form can write do not depend on this: a row is built from
\* the fields as they are when Submit is pressed.  This user also types
\* negative quantities, rates and advances, and records no extra work.
Next ==
    \/ Quiet /\ FormUser(Workers, KgInputs, RateInputs, AdvanceInputs)
    \/ Quiet /\ ListUser(MaxRecords)
    \/ Answers

Spec == Init /\ [][Next]_vars

\* The same user typing quantities, rates and advances the form accepts,
\* and extra work amounts that may be negative
OkKg == {Text(155)}
OkRate == {Text(1500)}
OkAdvance == {Text(20000)}
WorkInputs == {Text(-5000), Text(5000)}

NextWork ==
    \/ Quiet /\ FormUser(Workers, OkKg, OkRate, OkAdvance)
    \/ Quiet /\ WorkUser(WorkInputs)
    \/ Quiet /\ ListUser(MaxRecords)
    \/ Answers

SpecWork == Init /\ [][NextWork]_vars

\* The same user with two workers, recording no extra work, with more rows
AggWorkers == {"A", "B"}

NextAgg ==
    \/ Quiet /\ FormUser(AggWorkers, OkKg, OkRate, OkAdvance)
    \/ Quiet /\ ListUser(MaxAggRecords)
    \/ Answers

SpecAgg == Init /\ [][NextAgg]_vars

\* The same user on a table that already holds a row without the flag
NextLegacy ==
    \/ Quiet /\ FormUser(Workers, OkKg, OkRate, OkAdvance)
    \/ Quiet /\ ListUser(MaxAggRecords)
    \/ Answers

SpecLegacy == InitLegacy /\ [][NextLegacy]_vars

\* The tea_sales table is written outside the program (the sales screen
\* shows sample data and inserts nothing): at most one sale a day
SaleIncomes == {20000, 50000}
SaleRow(d, income) == [date |-> d, total_income |-> Some(income)]
SalesTables ==
    {a \cup b : a \in {{}} \cup {{SaleRow(Yesterday, x)} : x \in SaleIncomes},
                b \in {{}} \cup {{SaleRow(Today, x)} : x \in SaleIncomes}}

InitDash ==
    /\ store = {}
    /\ nextId = 1
    /\ records = <<>>
    /\ loading = TRUE
    /\ inflight = {[date |-> Today]}
    /\ selectedDate = Today
    /\ showForm = FALSE
    /\ formLoading = FALSE
    /\ editingRecord = Null
    /\ extraWorkItems = <<>>
    /\ formData = EmptyForm
    /\ pendingSave = Null
    /\ pendingDelete = Null
    /\ sales \in SalesTables
    /\ workersTable = AllWorkers
    /\ searchTerm = NoSearch
    /\ OrgInit
    /\ tableExists = TRUE
    /\ ViewInit
    /\ InviteInit

\* A user who records and deletes entries of yesterday and today, over any
\* of the sales tables
NextDash ==
    \/ Quiet /\ FormUser(Workers, OkKg, OkRate, OkAdvance)
    \/ Quiet /\ ListUser(MaxDashRecords)
    \/ Quiet /\ \E d \in Dates : SetDate(d)
    \/ Answers

SpecDash == InitDash /\ [][NextDash]_vars

\* The worked example of the aggregates: a user who enters, in any order,
\* 15.5 kg at 150 for worker A, 20 kg at 150 with extra work of 500 for
\* worker B and an advance of 2000 for worker A, and who deletes nothing
ScenarioKg == {Text(155), Text(200)}
ScenarioWork == {Text(5000)}

\* what the user chose for a row: worker, kind, quantity, rate, extra work
Shape(row) ==
    [worker_id |-> row.worker_id, is_advance |-> row.is_advance,
     kg_plucked |-> row.kg_plucked, rate_per_kg |-> row.rate_per_kg,
     notes |-> row.notes]

ScenarioShapes ==
    {[worker_id |-> "A", is_advance |-> "false", kg_plucked |-> Some(155),
      rate_per_kg |-> Some(DefaultRate), notes |-> Null],
     [worker_id |-> "B", is_advance |-> "false", kg_plucked |-> Some(200),
      rate_per_kg |-> Some(DefaultRate),
      notes |-> Some([extra_work |-> <<5000>>])],
     [worker_id |-> "A", is_advance |-> "true", kg_plucked |-> Some(0),
      rate_per_kg |-> Some(0), notes |-> Null]}

\* Submit is pressed for an entry of the example that the table lacks
ScenarioSubmit ==
    /\ Shape(RecordData(formData, extraWorkItems, selectedDate))
           \in ScenarioShapes \ {Shape(r) : r \in store}
    /\ handleSubmit

NextScenario ==
    \/ Quiet /\ FormUser(AggWorkers, ScenarioKg, OkRate, OkAdvance)
    \/ Quiet /\ WorkUser(ScenarioWork)
    \/ Quiet /\ ScenarioSubmit
    \/ \E req \in inflight : FetchDone(req)
    \/ SaveOk
    \/ SaveFailed

SpecScenario == Init /\ [][NextScenario]_vars

\* The user of the daily records screen who also types into the search box,
\* while rows of the workers table may disappear
SearchTerms == {NoSearch, <<"A", "n">>, <<"u", "n">>}

NextSearch ==
    \/ Quiet /\ FormUser(Workers, OkKg, OkRate, OkAdvance)
    \/ Quiet /\ ListUser(MaxRecords)
    \/ Quiet /\ \E t \in SearchTerms : SetSearch(t)
    \/ \E w \in Workers : WorkerHidden(w)
    \/ Answers

SpecSearch == Init /\ [][NextSearch]_vars

\* The OrganizationProvider under sign-ins and sign-outs, with the answers
\* of the backend arriving in any order
NextOrg ==
    \/ \E u \in {Null} \cup {Some(x) : x \in Users} : AuthChange(u)
    \/ \E call \in orgCalls, answer \in OrgAnswers : OrgAnswer(call, answer)
    \/ \E call \in orgCalls : OrgContinue(call)
    \/ \E i \in 1..2 : setCurrentOrganization(i)

SpecOrg == Init /\ [][NextOrg]_vars

\* The daily records screen, the harvest and revenue chart and the recent
\* harvests table, on a database where the daily_plucking table may not have
\* been created
InitViews ==
    /\ store = {}
    /\ nextId = 1
    /\ records = <<>>
    /\ loading = TRUE
    /\ inflight = {[date |-> Today]}
    /\ selectedDate = Today
    /\ showForm = FALSE
    /\ formLoading = FALSE
    /\ editingRecord = Null
    /\ extraWorkItems = <<>>
    /\ formData = EmptyForm
    /\ pendingSave = Null
    /\ pendingDelete = Null
    /\ sales = {}
    /\ workersTable = AllWorkers
    /\ searchTerm = NoSearch
    /\ OrgInit
    /\ tableExists \in BOOLEAN
    /\ ViewInit
    /\ InviteInit

NextViews ==
    \/ Quiet /\ FormUser(Workers, OkKg, OkRate, OkAdvance)
    \/ Quiet /\ ListUser(MaxRecords)
    \/ Answers
    \/ \E req \in inflight : FetchAbsent(req)
    \/ ChartRows
    \/ \E sample \in SampleData : ChartSample(sample)
    \/ ChartReload
    \/ RecentDone
    \/ RecentAbsent

SpecViews == InitViews /\ [][NextViews]_vars

\* The user who changes the date without waiting for the records of the
\* date chosen before
NextRace ==
    \/ Quiet /\ FormUser(Workers, OkKg, OkRate, OkAdvance)
    \/ Quiet /\ ListUser(MaxRecords)
    \/ pendingSave = Null /\ pendingDelete = Null /\ \E d \in Dates : SetDate(d)
    \/ Answers

SpecRace == Init /\ [][NextRace]_vars

\* The invitation page opened with the token of an invitation that may be
\* missing, by a visitor who may be signed in and may already be a member
InitInvite ==
    /\ store = {}
    /\ nextId = 1
    /\ records = <<>>
    /\ loading = TRUE
    /\ inflight = {[date |-> Today]}
    /\ selectedDate = Today
    /\ showForm = FALSE
    /\ formLoading = FALSE
    /\ editingRecord = Null
    /\ extraWorkItems = <<>>
    /\ formData = EmptyForm
    /\ pendingSave = Null
    /\ pendingDelete = Null
    /\ sales = {}
    /\ workersTable = AllWorkers
    /\ searchTerm = NoSearch
    /\ OrgInit
    /\ tableExists = TRUE
    /\ ViewInit
    /\ invitation \in {Null, Some(TheInvitation)}
    /\ members \in {{}, {EarlierMember}}
    /\ now = 1
    /\ inviteLoading = TRUE
    /\ invite = Null
    /\ inviteError = Null
    /\ inviteUser = Null
    /\ checking = TRUE
    /\ accepting = FALSE
    /\ acceptCall = Null
    /\ redirected = FALSE

NextInvite ==
    \/ Tick
    \/ \E u \in {Null} \cup {Some(x) : x \in PageUsers} : UserChecked(u)
    \/ InviteFetched
    \/ InviteFetchFailed
    \/ handleAccept
    \/ \E answer \in {"ok", "duplicate", "error"} : AcceptAnswer(answer)
    \/ AcceptContinue

SpecInvite == InitInvite /\ [][NextInvite]_vars

\* The daily records screen on a database where the table may not have been
\* created and queries may fail.  Every awaited call of the store settles:
\* the answers are taken under weak fairness.
Settle ==
    \/ \E req \in inflight : FetchDone(req)
    \/ \E req \in inflight : FetchFailed(req)
    \/ \E req \in inflight : FetchAbsent(req)
    \/ SaveOk
    \/ SaveFailed

NextLive ==
    \/ Quiet /\ FormUser(Workers, OkKg, OkRate, OkAdvance)
    \/ Quiet /\ handleEdit(1)
    \/ Quiet /\ (editingRecord = Null => nextId <= MaxRecords) /\ handleSubmit
    \/ pendingSave = Null /\ \E d \in Dates : SetDate(d)
    \/ Settle

SpecLive == InitViews /\ [][NextLive]_vars /\ WF_vars(Settle)

----------------------------------------------------------------------------
(* Properties.  Amounts are in tenths: 155 kg-tenths at a rate of 1500 earn *)
(* 23250, an advance of 20000 is stored as -20000.                          *)

\* the row a pending insert or update carries
Sent == pendingSave[1].data

\* C1: a plucking submission with non-negative quantity, rate and extra work
\* amounts is written with the amount quantity * rate + the sum of the extra
\* work amounts (quantity * rate when there are none), the salary preview
\* shows that amount, and every plucking row of the table carries it
C1_PluckingAmount ==
    /\ (pendingSave # Null /\ ~formData.is_advance) =>
           LET kg == formData.kg_plucked[1]
               rate == formData.rate_per_kg[1]
               amount == (kg * rate) \div Scale + SumSeq(extraWorkItems)
           IN /\ Sent.wage_earned = Some(amount)
              /\ Sent.total_income = Some(amount)
              /\ salaryPreview = amount
              /\ extraWorkItems = <<>> => amount = (kg * rate) \div Scale
    /\ \A row \in store :
           ~Truthy(row.is_advance) =>
               row.wage_earned[1] =
                   (row.kg_plucked[1] * row.rate_per_kg[1]) \div Scale
                       + OrZero(row.extra_work_payment)

\* a plucking submission of 15.5 kg at 150 with one extra work item of 500
C1_Witness ==
    /\ pendingSave # Null
    /\ ~formData.is_advance
    /\ formData.kg_plucked = Text(155)
    /\ formData.rate_per_kg = Text(1500)
    /\ extraWorkItems = <<5000>>
    /\ Sent.wage_earned = Some(28250)

C3_SignEncodesKind ==
    \A row \in store :
        IF Truthy(row.is_advance)
        THEN row.wage_earned[1] <= 0
        ELSE row.wage_earned[1] >= 0

\* the table holds an advance with a negative amount while the user has
\* typed a negative quantity into the form
C3_Witness ==
    /\ \E row \in store : Truthy(row.is_advance) /\ row.wage_earned[1] < 0
    /\ showForm
    /\ formData.kg_plucked = Text(-10)

\* the plucking form holds a negative quantity or a negative rate
NegativePlucking ==
    /\ showForm
    /\ ~formData.is_advance
    /\ \/ ParseFloatOr0(formData.kg_plucked) < 0
       \/ ParseFloatOr0(formData.rate_per_kg) < 0

\* C4: while the plucking form holds a negative quantity or a negative rate
\* handleSubmit cannot run, so nothing is inserted or updated; no statement
\* sent and no row of the table carries a negative quantity or rate, and
\* none carries a clamped one in its place
C4_NegativePluckingRejected ==
    /\ NegativePlucking => ~ENABLED handleSubmit
    /\ pendingSave # Null =>
           Sent.kg_plucked[1] >= 0 /\ Sent.rate_per_kg[1] >= 0
    /\ \A row \in store :
           row.kg_plucked[1] >= 0 /\ row.rate_per_kg[1] >= 0

\* an otherwise complete plucking form with a negative quantity: pressing
\* Submit is refused
C4_Witness ==
    /\ NegativePlucking
    /\ formData.worker_id # NoWorker
    /\ formData.kg_plucked = Text(-10)
    /\ formData.rate_per_kg = Text(1500)
    /\ ENABLED SubmitBlocked

\* C5: a form that holds a negative extra work amount or a negative advance
\* amount cannot be submitted, and no row is written from one
C5_NegativeExtraOrAdvanceRejected ==
    /\ (showForm /\ \E i \in 1..Len(extraWorkItems) : extraWorkItems[i] < 0) =>
           ~ENABLED handleSubmit
    /\ (showForm /\ formData.is_advance
            /\ ParseFloatOr0(formData.advance_amount) < 0) =>
           ~ENABLED handleSubmit
    /\ \A row \in store :
           /\ OrZero(row.extra_work_payment) >= 0
           /\ row.notes # Null =>
                  \A i \in 1..Len(row.notes[1].extra_work) :
                      row.notes[1].extra_work[i] >= 0

\* C6: a displayed record is an advance exactly when the flag of its row is
\* true, whatever its quantity and amount are, and the dashboard card counts
\* the quantity of exactly the rows whose flag is not true
C6_FlagDecidesKind ==
    /\ Quiet =>
           \A i \in 1..Len(records) :
               \E row \in store :
                   /\ row.id = records[i].id
                   /\ records[i].is_advance <=> (row.is_advance = "true")
    /\ CardsHarvest(Today) =
           SumFn([row \in {x \in store : x.date = Today /\ x.is_advance # "true"}
                      |-> OrZero(row.kg_plucked)])

\* a row without the flag, with quantity 0 and a negative amount, is
\* displayed as a plucking record
C6_Witness ==
    /\ Quiet
    /\ \E i \in 1..Len(records) :
           /\ ~records[i].is_advance
           /\ records[i].kg_plucked = 0
           /\ records[i].daily_salary < 0
           /\ \E row \in store : row.id = records[i].id /\ row.is_advance = "null"

\* C7: every advance row of the table has quantity 0, rate 0, extra work
\* payment 0 and no extra work items, and the amount of every plucking row
\* is made of its quantity, rate and extra work alone
C7_ToggleClearsOtherKind ==
    \A row \in store :
        IF Truthy(row.is_advance)
        THEN /\ row.kg_plucked = Some(0)
             /\ row.rate_per_kg = Some(0)
             /\ OrZero(row.extra_work_payment) = 0
             /\ row.notes = Null
        ELSE row.wage_earned[1] =
                 (row.kg_plucked[1] * row.rate_per_kg[1]) \div Scale
                     + OrZero(row.extra_work_payment)

\* the quantity harvested on a day: the plucking rows only
PluckingKg(d) ==
    SumFn([row \in {x \in store : x.date = d /\ x.is_advance # "true"}
               |-> row.kg_plucked[1]])

C9_TotalPaid ==
    Quiet =>
        StatsTotalPaid(records) =
            SumFn([row \in {x \in store : x.date = selectedDate} |->
                      IF row.is_advance = "true"
                      THEN -(row.wage_earned[1])
                      ELSE row.wage_earned[1]])

\* a wage of 2325 and an advance of 2000 make a total paid of 4325
C9_Witness ==
    /\ Quiet
    /\ Len(records) = 2
    /\ \E a \in store, p \in store :
           /\ a.is_advance = "true" /\ a.wage_earned = Some(-20000)
           /\ p.is_advance = "false" /\ p.wage_earned = Some(23250)
    /\ StatsTotalPaid(records) = 43250

\* total_earned: the amounts of the plucking rows
TotalEarned ==
    SumFn([row \in {x \in store : ~Truthy(x.is_advance)} |-> row.wage_earned[1]])

\* total_advanced: the magnitudes of the amounts of the advance rows
TotalAdvanced ==
    SumFn([row \in {x \in store : Truthy(x.is_advance)} |-> Abs(row.wage_earned[1])])

\* C10: total_earned and total_advanced are never negative
C10_TotalsNonNegative ==
    TotalEarned >= 0 /\ TotalAdvanced >= 0

\* the table holds a plucking record with extra work while the form holds a
\* negative extra work amount
C10_Witness ==
    /\ TotalEarned = 28250
    /\ showForm
    /\ extraWorkItems = <<-5000>>

\* total_earned and total_advanced of a period
EarnedIn(days) ==
    SumFn([row \in {x \in RowsIn(days) : ~Truthy(x.is_advance)}
               |-> row.wage_earned[1]])
AdvancedIn(days) ==
    SumFn([row \in {x \in RowsIn(days) : Truthy(x.is_advance)}
               |-> Abs(row.wage_earned[1])])

\* the bonuses of a period: the program keeps no bonus entries
BonusesIn(days) == 0

\* C11: the expenses shown for a period, by the monthly card and by the
\* points of the financial chart, are total_earned + bonuses - total_advanced
C11_ExpensesFormula ==
    /\ CardsExpenses(ThisMonth) =
           EarnedIn(ThisMonth) + BonusesIn(ThisMonth) - AdvancedIn(ThisMonth)
    /\ CardsExpenses(LastMonth) =
           EarnedIn(LastMonth) + BonusesIn(LastMonth) - AdvancedIn(LastMonth)
    /\ \A d \in Dates :
           ChartPoint(d).expenses =
               EarnedIn({d}) + BonusesIn({d}) - AdvancedIn({d})

\* the income of the sales of a period
SaleIncomeIn(days) ==
    SumFn([x \in {y \in sales : y.date \in days} |-> OrZero(x.total_income)])

\* every revenue figure of a period is the income of its sales
RevenueIsSales ==
    \A d \in Dates :
        /\ CardsRevenue({d}) = SaleIncomeIn({d})
        /\ ChartPoint(d).revenue = SaleIncomeIn({d})
        /\ OverviewRevenue({d}) = SaleIncomeIn({d})
        /\ HarvestChartRevenue(d) = SaleIncomeIn({d})

\* no step of the program changes a revenue figure
RevenueUnchanged ==
    \A d \in Dates :
        /\ CardsRevenue({d})' = CardsRevenue({d})
        /\ ChartPoint(d).revenue' = ChartPoint(d).revenue
        /\ OverviewRevenue({d})' = OverviewRevenue({d})
        /\ HarvestChartRevenue(d)' = HarvestChartRevenue(d)

\* C12: the revenue every view shows for a period is the sum of the income
\* of the sales of the period, and adding, editing or deleting a work entry
\* changes none of them
C12_RevenueIndependentOfWork ==
    []RevenueIsSales /\ [][RevenueUnchanged]_vars

\* C13: the profit of the monthly card, of every point of the financial
\* chart and of the chart's totals is revenue - expenses, also when that is
\* negative, and the total profit is the sum of the profits of the points
C13_ProfitIsRevenueMinusExpenses ==
    /\ \A m \in {ThisMonth, LastMonth} :
           CardsProfit(m) = CardsRevenue(m) - CardsExpenses(m)
    /\ \A i \in DOMAIN ChartData :
           ChartData[i].profit = ChartData[i].revenue - ChartData[i].expenses
    /\ ChartTotalProfit = ChartTotalRevenue - ChartTotalExpenses
    /\ ChartTotalProfit = SumFn([i \in DOMAIN ChartData |-> ChartData[i].profit])

\* yesterday a sale of 5000 and no work; today a sale of 2000 and wages of
\* 2325: today's profit is -325 and the total profit is 4675
C13_Witness ==
    /\ CardsRevenue(ThisMonth) = 20000
    /\ CardsProfit(ThisMonth) = -3250
    /\ ChartPoint(Today).profit = -3250
    /\ ChartPoint(Yesterday).profit = 50000
    /\ ChartTotalProfit = 46750

\* the percentage changes the dashboards show, each with the current and
\* the prior value it compares
ChangeFigures ==
    {[name |-> "revenue", change |-> CardsRevenueChange,
      current |-> CardsRevenue(ThisMonth), prior |-> CardsRevenue(LastMonth)],
     [name |-> "expenses", change |-> CardsExpensesChange,
      current |-> CardsExpenses(ThisMonth), prior |-> CardsExpenses(LastMonth)],
     [name |-> "profit", change |-> CardsProfitChange,
      current |-> CardsProfit(ThisMonth), prior |-> CardsProfit(LastMonth)],
     [name |-> "harvest", change |-> CardsHarvestChange,
      current |-> CardsHarvest(Today), prior |-> CardsHarvest(Yesterday)],
     [name |-> "overview harvest", change |-> OverviewHarvestChange,
      current |-> OverviewHarvest(Today), prior |-> OverviewHarvest(Yesterday)],
     [name |-> "overview revenue", change |-> OverviewRevenueChange,
      current |-> OverviewRevenue(ThisMonth), prior |-> OverviewRevenue(LastMonth)]}

\* a quotient that is a finite number, and two quotients that are the same
\* number
Finite(q) == q.den # 0

RECURSIVE Gcd(_, _)
Gcd(a, b) == IF b = 0 THEN a ELSE Gcd(b, a % b)

\* a finite quotient in lowest terms with a positive denominator
Lowest(q) ==
    LET g == Gcd(Abs(q.num), Abs(q.den))
        sign == IF q.den < 0 THEN -1 ELSE 1
    IN Quot(sign * (q.num \div g), sign * (q.den \div g))

SameNumber(q, r) == Finite(q) /\ Finite(r) /\ Lowest(q) = Lowest(r)

\* C14 as claimed: every percentage change is finite, is 0 when the prior
\* value is zero, and is (current - prior) / prior * 100 otherwise
C14_ChangeOverPrior ==
    \A f \in ChangeFigures :
        /\ Finite(f.change)
        /\ f.prior = 0 => f.change.num = 0
        /\ f.prior # 0 =>
               SameNumber(f.change, Quot((f.current - f.prior) * 100, f.prior))

\* C14 as amended: every percentage change is finite and is 0 when the
\* prior value is zero; the profit change is (current - prior) / |prior| *
\* 100 when the prior profit is not zero; every other change is (current -
\* prior) / prior * 100 when the prior value is positive and 0 when it is
\* negative
C14_ChangeGuarded ==
    \A f \in ChangeFigures :
        /\ Finite(f.change)
        /\ f.prior = 0 => f.change.num = 0
        /\ IF f.name = "profit"
           THEN f.prior # 0 =>
                    SameNumber(f.change,
                               Quot((f.current - f.prior) * 100, Abs(f.prior)))
           ELSE /\ f.prior > 0 =>
                       SameNumber(f.change,
                                  Quot((f.current - f.prior) * 100, f.prior))
                /\ f.prior < 0 => f.change.num = 0

\* last month wages of 2325 and no sale, this month a sale of 5000: the
\* revenue change is 0 over a prior revenue of 0, the profit rises from
\* -2325 to 5000 and its change is positive, and the overview's change is 0
\* over its negative prior "revenue"
C14_Witness ==
    /\ CardsRevenue(LastMonth) = 0
    /\ CardsRevenue(ThisMonth) = 50000
    /\ CardsRevenueChange = Zero
    /\ CardsProfit(LastMonth) = -23250
    /\ CardsProfit(ThisMonth) = 50000
    /\ CardsProfitChange.num > 0
    /\ CardsProfitChange.den > 0

\* avg_kg_per_worker of a day: total_kg / worker_count, or 0 without workers
AvgKgPerWorker(d) ==
    IF TrendWorkers(d) > 0 THEN Quot(PluckingKg(d), TrendWorkers(d)) ELSE Zero

Orders(n) == {f \in [1..n -> 1..n] : \A i, j \in 1..n : f[i] = f[j] => i = j}
Rearranged(recs, f) == [i \in 1..Len(recs) |-> recs[f[i]]]

C17_WorkerCount ==
    \A d \in Dates :
        TrendWorkers(d) =
            Cardinality({w \in AggWorkers :
                            \E r \in store : r.date = d /\ r.worker_id = w})

\* worker A has a plucking entry and an advance today and counts once
C17_Witness ==
    /\ \E p \in store, a \in store :
           /\ p.worker_id = "A" /\ ~Truthy(p.is_advance)
           /\ a.worker_id = "A" /\ Truthy(a.is_advance)
           /\ p.date = Today /\ a.date = Today
    /\ TrendWorkers(Today) = 1

\* the table holds exactly the three entries of the worked example
ScenarioEntered ==
    /\ Cardinality(store) = 3
    /\ {Shape(r) : r \in store} = ScenarioShapes

\* C18: for the entries Plucking(A, 15.5 kg, 150), Plucking(B, 20 kg, 150,
\* extra 500) and Advance(A, 2000) entered through the form, total kg is
\* 35.5, total earned 5825, total advanced 2000, total paid 7825, the worker
\* count 2 and the average 17.75 kg per worker
C18_WorkedExample ==
    (Quiet /\ ScenarioEntered) =>
        /\ StatsTotalKg(records) = 355
        /\ TrendTotalKg(Today) = 355
        /\ EarnedIn({Today}) = 58250
        /\ AdvancedIn({Today}) = 20000
        /\ StatsTotalPaid(records) = 78250
        /\ TrendWorkers(Today) = 2
        /\ SameNumber(AvgKgPerWorker(Today), Quot(1775, 10))

\* the three entries are in the table and displayed
C18_Witness ==
    /\ Quiet
    /\ ScenarioEntered
    /\ Len(records) = 3

\* the signed amount of the entry in the form: quantity * rate + extra work
\* for plucking, minus the amount for an advance
SignedAmount ==
    IF formData.is_advance
    THEN -ParseFloatOr0(formData.advance_amount)
    ELSE Mul(ParseFloatOr0(formData.kg_plucked),
             ParseFloatOr0(formData.rate_per_kg))
         + SumSeq(extraWorkItems)

\* C19: what is sent to the table carries the entry's signed amount in both
\* wage_earned and total_income, the two columns are equal in every row of
\* the table, the amount of a plucking row is its quantity * rate + extra
\* work payment, and the displayed amount of a row is the stored one, sign
\* included
C19_SignPreserved ==
    /\ pendingSave # Null =>
           /\ Sent.wage_earned = Some(SignedAmount)
           /\ Sent.total_income = Some(SignedAmount)
    /\ \A row \in store :
           /\ row.wage_earned # Null
           /\ row.wage_earned = row.total_income
           /\ ~Truthy(row.is_advance) =>
                  row.wage_earned[1] = Mul(row.kg_plucked[1], row.rate_per_kg[1])
                                       + row.extra_work_payment[1]
    /\ Quiet =>
           \A i \in 1..Len(records) :
               \E row \in store :
                   /\ row.id = records[i].id
                   /\ records[i].daily_salary = row.wage_earned[1]

\* an advance of 2000 is stored as -2000 in both columns and displayed as
\* -2000
C19_Witness ==
    /\ Quiet
    /\ \E i \in 1..Len(records) :
           /\ records[i].daily_salary = -20000
           /\ \E row \in store :
                  /\ row.id = records[i].id
                  /\ row.wage_earned = Some(-20000)
                  /\ row.total_income = Some(-20000)

\* the ids of the displayed records
DisplayedIds(recs) == {recs[i].id : i \in 1..Len(recs)}

\* the delete of the row with this id has been sent and is answered
DeleteAnswered == pendingDelete # Null /\ pendingDelete' = Null

\* C20 as stated: once the delete of an entry has been triggered, the entry
\* leaves the table and the displayed list, whatever happens
C20_DeleteUnconditional ==
    [][DeleteAnswered =>
           /\ \A row \in store' : row.id # pendingDelete[1]
           /\ pendingDelete[1] \notin DisplayedIds(records')]_vars

\* C20: when the user has confirmed the delete and the table has carried it
\* out, the entry is gone from the table and from the displayed list in that
\* same step and every other entry stays; when the table reports an error,
\* the table and the displayed list are unchanged; sending the delete changes
\* neither, and no row leaves the table in any other way
C20_DeleteOnConfirm ==
    [][/\ DeleteAnswered =>
              \/ /\ store' = {row \in store : row.id # pendingDelete[1]}
                 /\ DisplayedIds(records') =
                        DisplayedIds(records) \ {pendingDelete[1]}
                 /\ Len(records') = Cardinality(DisplayedIds(records'))
              \/ /\ store' = store
                 /\ records' = records
       /\ (pendingDelete = Null /\ pendingDelete' # Null) =>
              /\ pendingDelete'[1] \in DisplayedIds(records)
              /\ store' = store
              /\ records' = records
       /\ \A row \in store :
              (\A kept \in store' : kept.id # row.id) =>
                  pendingDelete = Some(row.id)]_vars

\* two entries were saved and one of them has been deleted: one row is left
\* in the table and in the displayed list
C20_Witness ==
    /\ Quiet
    /\ nextId = 3
    /\ Cardinality(store) = 1
    /\ Len(records) = 1

\* the sum of the magnitudes of the amounts of the rows of a day
PaidOn(d) == SumFn([r \in RowsOn(d) |-> Abs(r.wage_earned[1])])

\* C21: the totals of the daily records screen are the sums over the rows of
\* the selected date, whether or not the worker of a row can be joined (a
\* row without worker is displayed as Unknown) and whatever the search term
\* is
C21_TotalsIgnoreWorkerAndSearch ==
    Quiet =>
        /\ stats.totalKg = PluckingKg(selectedDate)
        /\ stats.totalPaid = PaidOn(selectedDate)

\* a plucking record is displayed with the worker Unknown, the search term
\* filters it out of the rows, and the totals count it
C21_Witness ==
    /\ Quiet
    /\ \E i \in 1..Len(records) :
           /\ records[i].worker_name = WorkerName(Null)
           /\ ~records[i].is_advance
    /\ searchTerm = <<"A", "n">>
    /\ Len(filteredRecords) < Len(records)
    /\ stats.totalKg = 155

\* C22: a refreshOrganizations call for a signed-in user that is answered
\* with "does not exist" (function or tables absent), or with no
\* organizations, ends with exactly one organization, the default one
\* (organization_id the id of the user, slug default, role owner), which is
\* the current organization
C22_DefaultOrganization ==
    [][\A call \in orgCalls :
           (call.answer \in {"absent", "empty"} /\ call \notin orgCalls') =>
               /\ Len(organizations') = 1
               /\ organizations'[1].organization_id = call.user
               /\ organizations'[1].organization_slug = "default"
               /\ organizations'[1].user_role = "owner"
               /\ currentOrganization' = Some(organizations'[1])]_vars

\* user u1 is signed in, nothing is awaited, and the only and current
\* organization is the default one of u1
C22_Witness ==
    /\ user = Some("u1")
    /\ orgCalls = {}
    /\ Len(organizations) = 1
    /\ organizations[1].organization_id = "u1"
    /\ organizations[1].organization_slug = "default"
    /\ currentOrganization = Some(organizations[1])

\* the organizations that were loaded for a user
LoadedFor(u) ==
    {DefaultOrg(u)} \cup {Memberships[u][i] : i \in 1..Len(Memberships[u])}

\* C25: once no refreshOrganizations call is awaiting, a signed-out session
\* has no organizations and no current organization, and the current
\* organization of a signed-in session was loaded for its user
C25_OrganizationsOfTheSession ==
    orgCalls = {} =>
        /\ user = Null => organizations = <<>> /\ currentOrganization = Null
        /\ (user # Null /\ currentOrganization # Null) =>
               currentOrganization[1] \in LoadedFor(user[1])

\* C23: when the daily_plucking table does not exist, every view that has
\* finished fetching is not loading and empty: the daily records screen shows
\* no records and zero totals, the recent harvests table no rows, the chart
\* no harvest and no revenue
C23_GracefulDegradation ==
    ~tableExists =>
        /\ inflight = {} =>
               /\ ~loading
               /\ records = <<>>
               /\ stats.totalKg = 0
               /\ stats.totalPaid = 0
        /\ ~harvestLoading => harvestData = <<>>
        /\ ~chartLoading => ChartTotalHarvest = 0 /\ ChartRevenueTotal = 0

\* C24: once every fetch of the daily records screen has completed, the
\* displayed records are the rows of the selected date
C24_RecordsOfSelectedDate ==
    inflight = {} =>
        DisplayedIds(records) = {r.id : r \in RowsOn(selectedDate)}

\* C26: a membership is never inserted after the invitation has expired:
\* at the time of the insert its expires_at has not passed
C26_NoAcceptAfterExpiry ==
    [][members' # members => ~(invitation[1].expires_at < now)]_vars

\* the invitation is marked accepted, the current organization is stored or
\* the redirect is issued in this step
AcceptedEffects ==
    \/ invitation' # invitation
    \/ savedOrgId' # savedOrgId
    \/ redirected' # redirected

UnchangedEdit(i) ==
    /\ pendingSave # Null
    /\ pendingSave[1].target = Some(records[i].id)
    /\ formData = EditFormOf(records[i])
    /\ extraWorkItems = records[i].extra_work_items

SaveAnswered == pendingSave # Null /\ pendingSave' = Null

\* C29: when the save fails the form stays open with the record being
\* edited and the typed values, and the displayed list is neither changed
\* nor fetched again; the form is closed and reset, the editing record
\* cleared and the list fetched again only when the save succeeded; either
\* way the busy flag of the form is released
C29_FailedSaveKeepsForm ==
    [][SaveAnswered =>
           /\ ~formLoading'
           /\ \/ /\ store' = store
                 /\ showForm /\ showForm'
                 /\ editingRecord' = editingRecord
                 /\ formData' = formData
                 /\ extraWorkItems' = extraWorkItems
                 /\ records' = records
                 /\ inflight' = inflight
                 /\ loading' = loading
              \/ /\ store' = Saved(pendingSave[1])
                 /\ ~showForm'
                 /\ editingRecord' = Null
                 /\ formData' = EmptyForm
                 /\ extraWorkItems' = <<>>
                 /\ [date |-> selectedDate] \in inflight'
                 /\ loading']_vars

\* the update of an edited advance of 2000 is awaited: it can fail or succeed
C29_Witness ==
    /\ pendingSave # Null
    /\ editingRecord # Null
    /\ showForm
    /\ formLoading
    /\ formData.is_advance
    /\ formData.advance_amount = Text(20000)
    /\ ENABLED SaveFailed
    /\ ENABLED SaveOk

\* C30: every started handleSubmit leads to formLoading being false again
\* and every started fetchRecords to loading being false again, whether the
\* call of the store succeeds, fails or reports that the table does not
\* exist; no busy flag is set while nothing is awaited
C30_BusyFlagsReleased ==
    /\ [](pendingSave = Null => ~formLoading)
    /\ [](inflight = {} => ~loading)
    /\ formLoading ~> ~formLoading
    /\ loading ~> ~loading

\* on a database without the table the fetch has ended with loading false,
\* and a save is awaited that the store will refuse
C30_Witness ==
    /\ ~tableExists
    /\ inflight = {}
    /\ ~loading
    /\ formLoading
    /\ pendingSave # Null

====
